---- MODULE Spec2Model ----
(***************************************************************************)
(* Model of the user-management and authentication core of the hexagonal   *)
(* FastAPI backend: the use cases (app/domain/usecase), the two gateway    *)
(* implementations (Persistence over the synchronous UserRepository, and   *)
(* UserDataGatewayImpl over the asynchronous UserRepository), the entity   *)
(* mappers, and the "users" table they share.                              *)
(*                                                                         *)
(* Representation.                                                         *)
(*  - Python None is NoneInt for integer fields, NoneStr for string fields *)
(*    and NoPassword for the password field; Truthy* follow Python's       *)
(*    truthiness (None, 0 and "" are falsy).                               *)
(*  - A password value is a record: Plain(t) is the string t, and          *)
(*    Bcrypt(t, s) is the bcrypt string passlib produces for t with        *)
(*    salt s.  The two are never equal, and only Verify relates them.      *)
(*  - A timestamp string (datetime.now().isoformat()) is represented by    *)
(*    the instant it denotes, a natural number of minutes.                 *)
(*  - An exception message is represented by the values its text names     *)
(*    (Msg(id, email)).                                                    *)
(*  - The users table is persistent and outlives the process: database.py  *)
(*    only opens an engine on an existing database, so Init draws the      *)
(*    table from SeedStores, tables whose rows satisfy the schema of       *)
(*    UserEntity and hold bcrypt passwords.                                *)
(*  - A JWT is represented by its payload, the algorithm its header names *)
(*    and the key its signature verifies under; held is the token a client *)
(*    carries between calls.  TokenSpec runs the clock past a token's      *)
(*    lifetime; PasswordSpec exercises the credential utility on its own.  *)
(***************************************************************************)
EXTENDS Integers, Sequences, FiniteSets, TLC

VARIABLES users, nextId, now, last, held, inflight

vars == <<users, nextId, now, last, held, inflight>>

----------------------------------------------------------------------------
(* Bounds *)

MaxTime == 1
MaxId == 2

----------------------------------------------------------------------------
(* Values *)

NoneInt == -1
NoneStr == "<None>"
SENTINEL_EMAIL == "default@example.com"

Emails == {"a@b.com", "c@d.com"}
Plaintexts == {"password1", "password2"}
(* The salts passlib draws while the program runs; the seeded rows were    *)
(* hashed with salt 1.                                                     *)
Salts == {2}
Dates == {0, MaxTime}
ProfileIds == {1}
StatusIds == {1, 2}
Ids == 1..MaxId

Plain(t) == [tag |-> "plain", text |-> t, salt |-> 0]
Bcrypt(t, s) == [tag |-> "bcrypt", text |-> t, salt |-> s]
NoPassword == [tag |-> "none", text |-> "", salt |-> 0]

TruthyInt(i) == i # NoneInt /\ i # 0
TruthyStr(s) == s # NoneStr /\ s # ""
TruthyPassword(p) == p # NoPassword /\ p # Plain("")

User(id, email, password, creation_date, profile_id, status_id) ==
    [id |-> id, email |-> email, password |-> password,
     creation_date |-> creation_date, profile_id |-> profile_id,
     status_id |-> status_id]

NoneValue == [tag |-> "None"]

Msg(id, email) == [user_id |-> id, email |-> email]
NoMsg == Msg(NoneInt, NoneStr)

Return(v) == [kind |-> "return", exc |-> "", code |-> "", msg |-> NoMsg, value |-> v]
Raise(e, c, m) == [kind |-> "raise", exc |-> e, code |-> c, msg |-> m, value |-> NoneValue]

CustomException(c) == Raise("CustomException", c, NoMsg)

(* One step of a call: its outcome, the table and the id sequence after it. *)
Step(o, u, n) == [out |-> o, users |-> u, nextId |-> n]

----------------------------------------------------------------------------
(* Credential utility *)

(* bcrypt digests at most the first 72 bytes of a secret; passlib's bcrypt *)
(* handler passes longer secrets on without an error (truncate_error is    *)
(* off by default).  Bcrypt(t, s) holds the bytes that were digested.     *)
BcryptMaxBytes == 72

bcrypt_secret(text) ==
    IF Len(text) > BcryptMaxBytes THEN SubSeq(text, 1, BcryptMaxBytes) ELSE text

hash_password_salted(password, s) == Bcrypt(bcrypt_secret(password.text), s)

verify_password(plain_password, hashed_password) ==
    /\ hashed_password.tag = "bcrypt"
    /\ plain_password.tag = "plain"
    /\ hashed_password.text = bcrypt_secret(plain_password.text)

----------------------------------------------------------------------------
(* The users table (UserEntity): rows with a unique primary key id and a   *)
(* unique, non-null email.                                                 *)

RowsById(us, id) == {r \in us : r.id = id}
RowsByEmail(us, email) == {r \in us : r.email = email}

(* query(...).filter_by(...).first(): the row, or None. The filters are on *)
(* unique columns, so at most one row matches.                             *)
First(rows) == IF rows = {} THEN NoneValue ELSE CHOOSE r \in rows : TRUE

(* The unique constraint on email, checked when a statement is flushed. *)
EmailTaken(us, row) == \E r \in us : r.email = row.email /\ r.id # row.id

(* NOT NULL columns of UserEntity. *)
NotNullViolated(row) ==
    \/ row.email = NoneStr
    \/ row.password = NoPassword
    \/ row.creation_date = NoneInt

----------------------------------------------------------------------------
(* persistence/mapper/user_mapper.py and UserEntity.from_user *)

from_user(user) ==
    [id |-> NoneInt,
     email |-> user.email,
     password |-> IF TruthyPassword(user.password) THEN user.password ELSE Plain(""),
     creation_date |-> user.creation_date,
     profile_id |-> user.profile_id,
     status_id |-> user.status_id]

map_user_to_entity(user) == from_user(user)

map_entity_to_user(user_entity) ==
    User(user_entity.id, user_entity.email, user_entity.password,
         user_entity.creation_date, user_entity.profile_id, user_entity.status_id)

(* Mutant: the stored password is kept whatever the update supplies. *)
map_update_to_entity_keeps_password(user_update, user_entity) ==
    [id |-> user_update.id,
     email |-> IF TruthyStr(user_update.email)
               THEN user_update.email ELSE user_entity.email,
     password |-> user_entity.password,
     creation_date |-> user_entity.creation_date,
     profile_id |-> IF user_update.profile_id # NoneInt /\ user_update.profile_id # 0
                    THEN user_update.profile_id ELSE user_entity.profile_id,
     status_id |-> IF user_update.status_id # NoneInt /\ user_update.status_id # 0
                   THEN user_update.status_id ELSE user_entity.status_id]

map_update_to_entity(user_update, user_entity) ==
    [id |-> user_update.id,
     email |-> IF TruthyStr(user_update.email)
               THEN user_update.email ELSE user_entity.email,
     password |-> IF TruthyPassword(user_update.password)
                  THEN user_update.password ELSE user_entity.password,
     creation_date |-> user_entity.creation_date,
     profile_id |-> IF user_update.profile_id # NoneInt /\ user_update.profile_id # 0
                    THEN user_update.profile_id ELSE user_entity.profile_id,
     status_id |-> IF user_update.status_id # NoneInt /\ user_update.status_id # 0
                   THEN user_update.status_id ELSE user_entity.status_id]

----------------------------------------------------------------------------
(* persistence/repository/user_repository.py: the synchronous repository.  *)
(* Its lookups raise CustomException(KOU02) for a missing row; they never  *)
(* return None.                                                            *)

(* The text of the driver's unique-violation error, as the PostgreSQL      *)
(* engine of config/database.py words it.                                  *)
UniqueViolation == "duplicate key"

IntegrityErrorCode(orig) ==
    IF orig \in {"llave duplicada", "duplicate key"} THEN "KOU01" ELSE "KOG02"

Repo_get_user_by_id(us, user_id) ==
    LET user_entity == First(RowsById(us, user_id))
    IN IF user_entity = NoneValue
       THEN CustomException("KOU02")
       ELSE Return(map_entity_to_user(user_entity))

Repo_get_user_by_email(us, email) ==
    LET user_entity == First(RowsByEmail(us, email))
    IN IF user_entity = NoneValue
       THEN CustomException("KOU02")
       ELSE Return(map_entity_to_user(user_entity))

Repo_create_user(us, n, user) ==
    LET user_entity == [map_user_to_entity(user) EXCEPT !.id = n]
    IN IF EmailTaken(us, user_entity)
       THEN Step(CustomException(IntegrityErrorCode(UniqueViolation)), us, n)
       ELSE IF NotNullViolated(user_entity)
       THEN Step(CustomException(IntegrityErrorCode("null value")), us, n)
       ELSE Step(Return(map_entity_to_user(user_entity)), us \cup {user_entity}, n + 1)

(* Mutant: the updated entity is added as a new row under a fresh id. *)
Repo_update_user_readd(us, n, user) ==
    LET existing_user == First(RowsById(us, user.id))
    IN IF existing_user = NoneValue
       THEN Step(CustomException("KOD02"), us, n)
       ELSE LET updated == [map_update_to_entity(user, existing_user) EXCEPT !.id = n]
            IN IF EmailTaken(us \ {existing_user}, updated)
               THEN Step(CustomException(IntegrityErrorCode(UniqueViolation)), us, n)
               ELSE Step(Return(map_entity_to_user(updated)),
                         (us \ {existing_user}) \cup {updated}, n + 1)

Repo_update_user(us, n, user) ==
    LET existing_user == First(RowsById(us, user.id))
        updated ==
            [existing_user EXCEPT
               !.email = IF TruthyStr(user.email) THEN user.email ELSE @,
               !.password = IF TruthyPassword(user.password) THEN user.password ELSE @,
               !.profile_id = IF user.profile_id # NoneInt /\ user.profile_id # 0
                              THEN user.profile_id ELSE @,
               !.status_id = IF user.status_id # NoneInt /\ user.status_id # 0
                             THEN user.status_id ELSE @]
    IN IF existing_user = NoneValue
       THEN Step(CustomException("KOD02"), us, n)
       ELSE IF EmailTaken(us, updated)
       THEN Step(CustomException(IntegrityErrorCode(UniqueViolation)), us, n)
       ELSE Step(Return(map_entity_to_user(updated)),
                 (us \ {existing_user}) \cup {updated}, n)

----------------------------------------------------------------------------
(* persistence/service/persistence.py: Persistence(PersistenceGateway).    *)
(* Every except branch rolls the session back and re-raises, so a failed   *)
(* call leaves the table as it was.                                        *)

Persistence_create_user(us, n, user) ==
    LET existing_user == Repo_get_user_by_email(us, user.email)
    IN IF existing_user.kind = "raise"
       THEN Step(existing_user, us, n)
       ELSE IF existing_user.value # NoneValue
       THEN Step(CustomException("KOU01"), us, n)
       ELSE LET created == Repo_create_user(us, n, from_user(user))
            IN IF created.out.kind = "raise"
               THEN Step(created.out, us, n)
               ELSE Step(Return(map_entity_to_user(created.out.value)),
                         created.users, created.nextId)

Persistence_get_user_by_id(us, id) ==
    LET user_entity == Repo_get_user_by_id(us, id)
    IN IF user_entity.kind = "raise"
       THEN user_entity
       ELSE Return(map_entity_to_user(user_entity.value))

Persistence_get_user_by_email(us, email) ==
    LET user_entity == Repo_get_user_by_email(us, email)
    IN IF user_entity.kind = "raise"
       THEN user_entity
       ELSE Return(map_entity_to_user(user_entity.value))

(* Mutant: the stored row is overwritten with the update, its             *)
(* creation_date included, instead of being merged.                        *)
Persistence_update_user_replacing(us, n, user) ==
    LET existing_user == Repo_get_user_by_id(us, user.id)
    IN IF existing_user.kind = "raise"
       THEN Step(existing_user, us, n)
       ELSE LET user_entity ==
                    [map_update_to_entity(user, existing_user.value)
                        EXCEPT !.creation_date = user.creation_date]
            IN IF EmailTaken(us, user_entity)
               THEN Step(CustomException("KOU01"), us, n)
               ELSE Step(Return(map_entity_to_user(user_entity)),
                         (us \ RowsById(us, user.id)) \cup {user_entity}, n)

Persistence_update_user(us, n, user) ==
    LET existing_user == Repo_get_user_by_id(us, user.id)
    IN IF existing_user.kind = "raise"
       THEN Step(existing_user, us, n)
       ELSE IF existing_user.value = NoneValue
       THEN Step(CustomException("KOU02"), us, n)
       ELSE LET user_entity == map_update_to_entity(user, existing_user.value)
                updated == Repo_update_user(us, n, user_entity)
            IN IF updated.out.kind = "raise"
               THEN Step(updated.out, us, n)
               ELSE Step(Return(map_entity_to_user(updated.out.value)),
                         updated.users, updated.nextId)

----------------------------------------------------------------------------
(* persistence/user_repository/user_mapper.py: UserMapper.                 *)
(* to_entity calls UserEntity(id=..., email=..., ...); UserEntity.__init__ *)
(* takes the parameters UserEntity_init_params, so a keyword outside them  *)
(* is a TypeError.                                                         *)

UserEntity_init_params ==
    {"email", "password", "creation_date", "profile_id", "status_id"}

to_entity_keywords ==
    {"id", "email", "password", "creation_date", "profile_id", "status_id"}

to_entity(domain) ==
    IF to_entity_keywords \subseteq UserEntity_init_params
    THEN Return([id |-> domain.id, email |-> domain.email,
                 password |-> domain.password,
                 creation_date |-> domain.creation_date,
                 profile_id |-> domain.profile_id,
                 status_id |-> domain.status_id])
    ELSE Raise("TypeError", "", NoMsg)

to_domain(entity) ==
    IF entity = NoneValue
    THEN NoneValue
    ELSE User(entity.id, entity.email, entity.password, entity.creation_date,
              entity.profile_id, entity.status_id)

----------------------------------------------------------------------------
(* persistence/user_repository/sqlalchemy_user_repository.py: the          *)
(* asynchronous repository. Lookups return the row or None; create_user    *)
(* and update let the driver's IntegrityError through.                     *)

AsyncRepo_get_user_by_id(us, user_id) == First(RowsById(us, user_id))

AsyncRepo_get_by_email(us, email) == First(RowsByEmail(us, email))

AsyncRepo_create_user(us, n, user_entity) ==
    LET row == IF user_entity.id = NoneInt
               THEN [user_entity EXCEPT !.id = n] ELSE user_entity
    IN IF \/ EmailTaken(us, row)
          \/ NotNullViolated(row)
          \/ RowsById(us, row.id) # {}
       THEN Step(Raise("IntegrityError", "", NoMsg), us, n)
       ELSE Step(Return(row), us \cup {row},
                 IF user_entity.id = NoneInt THEN n + 1 ELSE n)

(* session.merge copies every attribute of the given entity onto the row   *)
(* with its primary key, or inserts the entity when no such row exists.    *)
AsyncRepo_update(us, n, user_entity) ==
    LET old == RowsById(us, user_entity.id)
    IN IF old = {}
       THEN AsyncRepo_create_user(us, n, user_entity)
       ELSE IF EmailTaken(us, user_entity) \/ NotNullViolated(user_entity)
       THEN Step(Raise("IntegrityError", "", NoMsg), us, n)
       ELSE Step(Return(user_entity), (us \ old) \cup {user_entity}, n)

----------------------------------------------------------------------------
(* user_adapter/user_data_gateway_impl.py: UserDataGatewayImpl.            *)

Gw_create_user(us, n, user) ==
    LET user_entity == to_entity(user)
    IN IF user_entity.kind = "raise"
       THEN Step(user_entity, us, n)
       ELSE LET saved == AsyncRepo_create_user(us, n, user_entity.value)
            IN IF saved.out.kind = "raise"
               THEN Step(Raise("DuplicateUserException", "", Msg(NoneInt, user.email)),
                         us, n)
               ELSE Step(Return(to_domain(saved.out.value)), saved.users, saved.nextId)

Gw_get_user_by_id(us, user_id) ==
    LET entity == AsyncRepo_get_user_by_id(us, user_id)
    IN IF entity = NoneValue THEN Return(NoneValue) ELSE Return(to_domain(entity))

Gw_get_user_by_email(us, email) ==
    LET entity == AsyncRepo_get_by_email(us, email)
    IN IF entity = NoneValue THEN Return(NoneValue) ELSE Return(to_domain(entity))

Gw_update_user(us, n, user) ==
    IF user.id = NoneInt
    THEN Step(Raise("ValueError", "", NoMsg), us, n)
    ELSE IF AsyncRepo_get_user_by_id(us, user.id) = NoneValue
    THEN Step(Raise("UserNotFoundException", "", Msg(user.id, NoneStr)), us, n)
    ELSE LET entity_to_update == to_entity(user)
         IN IF entity_to_update.kind = "raise"
            THEN Step(entity_to_update, us, n)
            ELSE LET updated == AsyncRepo_update(us, n, entity_to_update.value)
                 IN IF updated.out.kind = "raise"
                    THEN Step(Raise("DuplicateUserException", "",
                                    Msg(NoneInt, user.email)), us, n)
                    ELSE Step(Return(to_domain(updated.out.value)),
                              updated.users, updated.nextId)

----------------------------------------------------------------------------
(* domain/model/util/exceptions.py *)

(* The message names the id when user_id is truthy, else the email when    *)
(* email is truthy, else nothing.                                          *)
(* Mutant: the exception never names what was looked up. *)
UserNotFoundException_anonymous(user_id, email) ==
    Raise("UserNotFoundException", "", NoMsg)

UserNotFoundException(user_id, email) ==
    Raise("UserNotFoundException", "",
          IF TruthyInt(user_id) THEN Msg(user_id, NoneStr)
          ELSE IF TruthyStr(email) THEN Msg(NoneInt, email)
          ELSE NoMsg)

DuplicateUserException(email) ==
    Raise("DuplicateUserException", "", Msg(NoneInt, email))

----------------------------------------------------------------------------
(* domain/usecase/util/jwt.py and application/settings.py *)

ACCESS_TOKEN_EXPIRE_MINUTES == 30

SECRET_KEY == "your-secret-key"
ALGORITHM == "HS256"

(* A claim set (a Python dict with string keys) is a function from claim   *)
(* names to values; a record [sub |-> e] is such a function.  A compact    *)
(* JWS is represented by what its three segments determine: the payload,   *)
(* the algorithm named in the header, and the key its signature verifies   *)
(* under.  A string that is not a compact JWS has tag "malformed".         *)
Token(payload, key, algorithm) ==
    [tag |-> "jwt", payload |-> payload, key |-> key, alg |-> algorithm]

MalformedToken == [tag |-> "malformed", payload |-> <<>>, key |-> "", alg |-> ""]

(* jwt.encode(to_encode, key, algorithm): claim values here are JSON       *)
(* strings and integer instants, which the JSON segment carries unchanged. *)
jwt_encode(payload, key, algorithm) == Token(payload, key, algorithm)

(* to_encode.update({"exp": expire}) *)
dict_update(d, k, v) ==
    [x \in DOMAIN d \cup {k} |-> IF x = k THEN v ELSE d[x]]

(* Mutant: the token carries the expiry and none of the caller's claims. *)
create_access_token_only_exp(data, t) ==
    LET expire == t + ACCESS_TOKEN_EXPIRE_MINUTES
        to_encode == [k \in {"exp"} |-> expire]
    IN jwt_encode(to_encode, SECRET_KEY, ALGORITHM)

create_access_token(data, t) ==
    LET expire == t + ACCESS_TOKEN_EXPIRE_MINUTES
        to_encode == dict_update(data, "exp", expire)
    IN jwt_encode(to_encode, SECRET_KEY, ALGORITHM)

(* The caller's dict after create_access_token returns: the function works *)
(* on data.copy() and leaves its argument as it was.                       *)
create_access_token_arg(data, t) == data

(* PyJWT releases differ at the instant now = exp: 1.x raises when         *)
(* exp < now, 2.x when exp <= now.  The sources pin no release.          *)
PyJWTVersions == {1, 2}

jwt_expired(exp, t, pyjwt) == IF pyjwt = 1 THEN exp < t ELSE exp <= t

(* jwt.decode(token, key, algorithms=[...]) with default options: the      *)
(* segments are parsed, the header's algorithm is looked up in the allowed *)
(* list, the signature is verified, and then the registered claims that    *)
(* are present are validated in the order nbf, exp, aud.  No claim is      *)
(* required; a payload with an "aud" claim fails because the call passes   *)
(* no audience.                                                            *)
jwt_decode(token, key, algorithms, t, pyjwt) ==
    IF token.tag # "jwt" THEN Raise("DecodeError", "", NoMsg)
    ELSE IF token.alg \notin algorithms THEN Raise("InvalidAlgorithmError", "", NoMsg)
    ELSE IF token.key # key THEN Raise("InvalidSignatureError", "", NoMsg)
    ELSE IF "nbf" \in DOMAIN token.payload /\ token.payload["nbf"] > t
    THEN Raise("ImmatureSignatureError", "", NoMsg)
    ELSE IF "exp" \in DOMAIN token.payload /\ jwt_expired(token.payload["exp"], t, pyjwt)
    THEN Raise("ExpiredSignatureError", "", NoMsg)
    ELSE IF "aud" \in DOMAIN token.payload
    THEN Raise("InvalidAudienceError", "", NoMsg)
    ELSE Return(token.payload)

(* The subclasses of jwt.InvalidTokenError. *)
InvalidTokenErrors ==
    {"DecodeError", "InvalidSignatureError", "ExpiredSignatureError",
     "InvalidAudienceError", "InvalidIssuerError", "InvalidIssuedAtError",
     "ImmatureSignatureError", "InvalidAlgorithmError", "MissingRequiredClaimError"}

InvalidTokenException == Raise("InvalidTokenException", "", NoMsg)
ExpiredTokenException == Raise("ExpiredTokenException", "", NoMsg)

(* Mutant: a token is honoured only while a stored user has its subject. *)
verify_token_subject_stored(token, t, pyjwt) ==
    LET payload == jwt_decode(token, SECRET_KEY, {ALGORITHM}, t, pyjwt)
    IN IF payload.kind = "return"
       THEN IF "sub" \in DOMAIN payload.value
                /\ \A r \in users : r.email # payload.value["sub"]
            THEN InvalidTokenException
            ELSE payload
       ELSE IF payload.exc = "ExpiredSignatureError" THEN ExpiredTokenException
       ELSE IF payload.exc \in InvalidTokenErrors THEN InvalidTokenException
       ELSE payload

(* Mutant: the two except clauses in the opposite order. *)
verify_token_invalid_first(token, t, pyjwt) ==
    LET payload == jwt_decode(token, SECRET_KEY, {ALGORITHM}, t, pyjwt)
    IN IF payload.kind = "return" THEN payload
       ELSE IF payload.exc \in InvalidTokenErrors THEN InvalidTokenException
       ELSE IF payload.exc = "ExpiredSignatureError" THEN ExpiredTokenException
       ELSE payload

(* Mutant: the expiry is not validated. *)
verify_token_no_expiry(token, t, pyjwt) ==
    LET payload == jwt_decode(token, SECRET_KEY, {ALGORITHM}, 0, pyjwt)
    IN IF payload.kind = "return" THEN payload
       ELSE IF payload.exc = "ExpiredSignatureError" THEN ExpiredTokenException
       ELSE IF payload.exc \in InvalidTokenErrors THEN InvalidTokenException
       ELSE payload

verify_token(token, t, pyjwt) ==
    LET payload == jwt_decode(token, SECRET_KEY, {ALGORITHM}, t, pyjwt)
    IN IF payload.kind = "return" THEN payload
       ELSE IF payload.exc = "ExpiredSignatureError" THEN ExpiredTokenException
       ELSE IF payload.exc \in InvalidTokenErrors THEN InvalidTokenException
       ELSE payload

----------------------------------------------------------------------------
(* The gateway behind a use case.                                          *)
(*  - "Persistence": the PersistenceGateway implementation the use cases   *)
(*    are annotated with; its methods are plain calls.                     *)
(*  - "UserDataGatewayImpl" and "AsyncMock" (tests/conftest.py): the       *)
(*    IUserDataGateway implementations; their methods are coroutines.      *)
(* UserUseCase.create_user and update_user return the gateway call without *)
(* using its result, so with a coroutine gateway the call runs when the    *)
(* caller awaits it, outside the use case's try block.  get_user and       *)
(* AuthUseCase.authenticate_user are driven over Persistence, whose        *)
(* results they are written against.                                       *)

SyncGateways == {"Persistence"}
AsyncGateways == {"UserDataGatewayImpl", "AsyncMock"}

Call(method, id, email, user) ==
    [method |-> method, id |-> id, email |-> email, user |-> user]

Gateway_create_user(gw, us, n, user, mock) ==
    CASE gw = "Persistence" -> Persistence_create_user(us, n, user)
      [] gw = "UserDataGatewayImpl" -> Gw_create_user(us, n, user)
      [] gw = "AsyncMock" -> Step(mock, us, n)

Gateway_update_user(gw, us, n, user, mock) ==
    CASE gw = "Persistence" -> Persistence_update_user(us, n, user)
      [] gw = "UserDataGatewayImpl" -> Gw_update_user(us, n, user)
      [] gw = "AsyncMock" -> Step(mock, us, n)

Gateway_get_user_by_id(gw, us, id, mock) ==
    CASE gw = "Persistence" -> Persistence_get_user_by_id(us, id)
      [] gw = "UserDataGatewayImpl" -> Gw_get_user_by_id(us, id)
      [] gw = "AsyncMock" -> mock

Gateway_get_user_by_email(gw, us, email, mock) ==
    CASE gw = "Persistence" -> Persistence_get_user_by_email(us, email)
      [] gw = "UserDataGatewayImpl" -> Gw_get_user_by_email(us, email)
      [] gw = "AsyncMock" -> mock

----------------------------------------------------------------------------
(* domain/usecase/user_usecase.py: UserUseCase *)

(* except CustomException: raise / except Exception: raise KOG01 *)
(* Mutant: the "except CustomException: raise" clause is missing. *)
ExceptClauses_all(out) ==
    IF out.kind = "raise" THEN CustomException("KOG01") ELSE out

ExceptClauses(out) ==
    IF out.kind = "raise" /\ out.exc # "CustomException"
    THEN CustomException("KOG01")
    ELSE out

(* What the caller of a use-case method gets from the gateway call the     *)
(* method returns.                                                         *)
(* Mutant: the except clauses also see what a coroutine raises. *)
Delegated_translated(gw, out) == ExceptClauses(out)

Delegated(gw, out) == IF gw \in AsyncGateways THEN out ELSE ExceptClauses(out)

Done(o, u, n, calls) == [out |-> o, users |-> u, nextId |-> n, calls |-> calls]

(* hash_password(user.password): passlib rejects a non-string secret. *)
hash_password(password, s) ==
    IF password.tag = "plain"
    THEN Return(hash_password_salted(password, s))
    ELSE Raise("TypeError", "", NoMsg)

(* Mutant: the creation_date of the input is left as the caller set it. *)
UC_create_user_keeps_date(gw, us, n, t, s, user, mock) ==
    LET hashed == hash_password(user.password, s)
        prepared == [user EXCEPT !.password = hashed.value]
        g == Gateway_create_user(gw, us, n, prepared, mock)
    IN IF hashed.kind = "raise"
       THEN Done(ExceptClauses(hashed), us, n, <<>>)
       ELSE Done(Delegated(gw, g.out), g.users, g.nextId,
                 <<Call("create_user", NoneInt, NoneStr, prepared)>>)

UC_create_user(gw, us, n, t, s, user, mock) ==
    LET hashed == hash_password(user.password, s)
        prepared == [user EXCEPT !.creation_date = t, !.password = hashed.value]
        g == Gateway_create_user(gw, us, n, prepared, mock)
    IN IF hashed.kind = "raise"
       THEN Done(ExceptClauses(hashed), us, n, <<>>)
       ELSE Done(Delegated(gw, g.out), g.users, g.nextId,
                 <<Call("create_user", NoneInt, NoneStr, prepared)>>)

(* Mutant: a lookup by email removes the row it found. *)
UC_get_user_evicting(gw, us, n, user) ==
    IF TruthyStr(user.email) /\ user.email # SENTINEL_EMAIL
    THEN Done(Delegated(gw, Gateway_get_user_by_email(gw, us, user.email, NoneValue)),
              us \ RowsByEmail(us, user.email), n,
              <<Call("get_user_by_email", NoneInt, user.email, NoneValue)>>)
    ELSE IF TruthyInt(user.id)
    THEN Done(Delegated(gw, Gateway_get_user_by_id(gw, us, user.id, NoneValue)),
              us, n, <<Call("get_user_by_id", user.id, NoneStr, NoneValue)>>)
    ELSE Done(CustomException("KOU02"), us, n, <<>>)

(* Mutant: the id is tried before the email. *)
UC_get_user_id_first(gw, us, n, user) ==
    IF TruthyInt(user.id)
    THEN Done(Delegated(gw, Gateway_get_user_by_id(gw, us, user.id, NoneValue)),
              us, n, <<Call("get_user_by_id", user.id, NoneStr, NoneValue)>>)
    ELSE IF TruthyStr(user.email) /\ user.email # SENTINEL_EMAIL
    THEN Done(Delegated(gw, Gateway_get_user_by_email(gw, us, user.email, NoneValue)),
              us, n, <<Call("get_user_by_email", NoneInt, user.email, NoneValue)>>)
    ELSE Done(CustomException("KOU02"), us, n, <<>>)

UC_get_user(gw, us, n, user) ==
    IF TruthyStr(user.email) /\ user.email # SENTINEL_EMAIL
    THEN Done(Delegated(gw, Gateway_get_user_by_email(gw, us, user.email, NoneValue)),
              us, n, <<Call("get_user_by_email", NoneInt, user.email, NoneValue)>>)
    ELSE IF TruthyInt(user.id)
    THEN Done(Delegated(gw, Gateway_get_user_by_id(gw, us, user.id, NoneValue)),
              us, n, <<Call("get_user_by_id", user.id, NoneStr, NoneValue)>>)
    ELSE Done(CustomException("KOU02"), us, n, <<>>)

(* Mutant: update_user hands the password to the gateway as supplied. *)
UC_update_user_unhashed(gw, us, n, s, user, mock) ==
    LET g == Gateway_update_user(gw, us, n, user, mock)
    IN Done(Delegated(gw, g.out), g.users, g.nextId,
            <<Call("update_user", NoneInt, NoneStr, user)>>)

UC_update_user(gw, us, n, s, user, mock) ==
    LET hashed == hash_password(user.password, s)
        prepared == IF user.password # NoPassword
                    THEN [user EXCEPT !.password = hashed.value]
                    ELSE user
        g == Gateway_update_user(gw, us, n, prepared, mock)
    IN IF user.password # NoPassword /\ hashed.kind = "raise"
       THEN Done(ExceptClauses(hashed), us, n, <<>>)
       ELSE Done(Delegated(gw, g.out), g.users, g.nextId,
                 <<Call("update_user", NoneInt, NoneStr, prepared)>>)

----------------------------------------------------------------------------
(* domain/usecase/auth_usecase.py: AuthUseCase *)

Auth_get_user(gw, us, user_to_get) ==
    ExceptClauses(Gateway_get_user_by_email(gw, us, user_to_get.email, NoneValue))

(* pwd_context.verify raises for a secret that is not a string and for a   *)
(* stored value that is not a recognised hash.                             *)
verify_password_call(plain_password, hashed_password) ==
    IF plain_password.tag # "plain" \/ hashed_password.tag # "bcrypt"
    THEN Raise("TypeError", "", NoMsg)
    ELSE Return(verify_password(plain_password, hashed_password))

(* Mutant: a token is issued for every user that is found. *)
Auth_authenticate_user_unverified(gw, us, n, t, user) ==
    LET user_validated == Auth_get_user(gw, us, user)
        calls == <<Call("get_user_by_email", NoneInt, user.email, NoneValue)>>
    IN IF user_validated.kind = "raise"
       THEN Done(ExceptClauses(user_validated), us, n, calls)
       ELSE Done(Return(create_access_token([sub |-> user.email], t)), us, n, calls)

Auth_authenticate_user(gw, us, n, t, user) ==
    LET user_validated == Auth_get_user(gw, us, user)
        calls == <<Call("get_user_by_email", NoneInt, user.email, NoneValue)>>
        verified == verify_password_call(user.password, user_validated.value.password)
    IN IF user_validated.kind = "raise"
       THEN Done(ExceptClauses(user_validated), us, n, calls)
       ELSE IF verified.kind = "raise"
       THEN Done(ExceptClauses(verified), us, n, calls)
       ELSE IF verified.value
       THEN Done(Return(create_access_token([sub |-> user.email], t)), us, n, calls)
       ELSE Done(Return(NoneValue), us, n, calls)

----------------------------------------------------------------------------
(* UserUseCase.get_user_by_id and get_user_by_email: called by             *)
(* AuthHandler.get_user and by the unit tests, over an IUserDataGateway.   *)

UC_get_user_by_id(gw, us, n, user_id, mock) ==
    LET user == Gateway_get_user_by_id(gw, us, user_id, mock)
        calls == <<Call("get_user_by_id", user_id, NoneStr, NoneValue)>>
    IN IF user.kind = "raise"
       THEN Done(user, us, n, calls)
       ELSE IF user.value = NoneValue
       THEN Done(UserNotFoundException(user_id, NoneStr), us, n, calls)
       ELSE Done(user, us, n, calls)

UC_get_user_by_email(gw, us, n, email, mock) ==
    LET user == Gateway_get_user_by_email(gw, us, email, mock)
        calls == <<Call("get_user_by_email", NoneInt, email, NoneValue)>>
    IN IF user.kind = "raise"
       THEN Done(user, us, n, calls)
       ELSE IF user.value = NoneValue
       THEN Done(UserNotFoundException(NoneInt, email), us, n, calls)
       ELSE Done(user, us, n, calls)

----------------------------------------------------------------------------
(* entry_point/mapper/user_mapper.py and entry_point/handler/auth_handler.py *)

(* The User constructor: User.email is a required EmailStr, so pydantic    *)
(* rejects the None an UpdateUserInput without email carries.              *)
map_update_user_dto_to_user(user_dto, t) ==
    IF user_dto.email = NoneStr
    THEN Raise("ValidationError", "", NoMsg)
    ELSE Return(User(user_dto.id, user_dto.email, user_dto.password, t,
                     user_dto.profile_id, user_dto.status_id))

(* AuthHandler.update_user: map the request, then call the use case. *)
Handler_update_user(gw, us, n, t, s, update_user_dto) ==
    LET user == map_update_user_dto_to_user(update_user_dto, t)
    IN IF user.kind = "raise"
       THEN Done(user, us, n, <<>>)
       ELSE UC_update_user(gw, us, n, s, user.value, Return(NoneValue))

----------------------------------------------------------------------------
(* State *)

SeedRow(id, email, text) ==
    [id |-> id, email |-> email, password |-> Bcrypt(text, 1),
     creation_date |-> 0, profile_id |-> 1, status_id |-> 1]

SeedStores ==
    { {},
      {SeedRow(1, "a@b.com", "password1")},
      {SeedRow(1, "a@b.com", "password1"), SeedRow(2, "c@d.com", "password2")} }

(* The record of the last call: the operation, the gateway behind it, its  *)
(* input, the table before it, its outcome and the gateway calls it made.  *)
Record(op, gw, arg, mock, pre, r) ==
    [op |-> op, gw |-> gw, arg |-> arg, mock |-> mock, pre |-> pre,
     out |-> r.out, calls |-> r.calls]

NoUser == User(NoneInt, NoneStr, NoPassword, NoneInt, NoneInt, NoneInt)

Init ==
    /\ users \in SeedStores
    /\ nextId = Cardinality(users) + 1
    /\ now = 0
    /\ last = Record("init", "", NoUser, Return(NoneValue), users,
                     Done(Return(NoneValue), users, nextId, <<>>))
    /\ held = NoneValue
    /\ inflight = <<>>

----------------------------------------------------------------------------
(* Inputs *)

PasswordInputs == {Plain(t) : t \in Plaintexts} \cup {NoPassword}

(* map_user_dto_to_user: no id, a caller-side creation_date. *)
NewUserInputs ==
    {User(NoneInt, e, p, d, pr, st) :
        e \in Emails, p \in PasswordInputs, d \in Dates,
        pr \in ProfileIds, st \in {1}}

(* map_update_user_dto_to_user *)
UpdateInputs(t) ==
    {User(i, e, p, t, pr, st) :
        i \in Ids \cup {NoneInt}, e \in Emails, p \in PasswordInputs,
        pr \in {NoneInt}, st \in {NoneInt, 2}}

(* map_get_user_dto_to_user: the placeholder email when none is given. *)
GetUserInputs(t) ==
    {User(i, e, NoPassword, t, NoneInt, NoneInt) :
        i \in Ids \cup {NoneInt, 0}, e \in Emails \cup {SENTINEL_EMAIL}}

(* map_login_dto_to_user *)
LoginInputs(t) ==
    {User(NoneInt, e, p, t, NoneInt, NoneInt) : e \in Emails, p \in PasswordInputs}

(* UpdateUserInput: id is required and positive; every other field is     *)
(* optional and absent (None) when the request leaves it out.              *)
UpdateUserInputs ==
    {User(i, e, p, NoneInt, NoneInt, st) :
        i \in Ids, e \in {NoneStr, "c@d.com"},
        p \in {NoPassword, Plain("password2")}, st \in {NoneInt, 2}}

(* What a test configures on the AsyncMock gateway: return_value or        *)
(* side_effect.                                                            *)
MockUser(id, email) == User(id, email, Bcrypt("password1", 1), 0, 1, 1)

MockCreateOutcomes(user) ==
    {Return(MockUser(1, user.email)), DuplicateUserException(user.email)}

MockLookupOutcomes == {Return(MockUser(1, "a@b.com")), Return(NoneValue)}

MockFor(gw, outcomes) == IF gw = "AsyncMock" THEN outcomes ELSE {Return(NoneValue)}

----------------------------------------------------------------------------
(* Operations *)

Apply(op, gw, arg, mock, r) ==
    /\ users' = r.users
    /\ nextId' = r.nextId
    /\ last' = Record(op, gw, arg, mock, users, r)
    /\ UNCHANGED <<now, held, inflight>>

CreateUser ==
    \E gw \in SyncGateways \cup AsyncGateways, user \in NewUserInputs,
       s \in Salts :
      \E mock \in MockFor(gw, MockCreateOutcomes(user)) :
        /\ nextId <= MaxId
        /\ Apply("create_user", gw, user, mock,
                 UC_create_user(gw, users, nextId, now, s, user, mock))

UpdateUser ==
    \E gw \in {"Persistence", "UserDataGatewayImpl"}, user \in UpdateInputs(now),
       s \in Salts :
        Apply("update_user", gw, user, Return(NoneValue),
              UC_update_user(gw, users, nextId, s, user, Return(NoneValue)))

UpdateUserRequest ==
    \E gw \in {"Persistence", "UserDataGatewayImpl"},
       update_user_dto \in UpdateUserInputs, s \in Salts :
        Apply("handler_update_user", gw, update_user_dto, Return(NoneValue),
              Handler_update_user(gw, users, nextId, now, s, update_user_dto))

GetUser ==
    \E user \in GetUserInputs(now) :
        Apply("get_user", "Persistence", user, Return(NoneValue),
              UC_get_user("Persistence", users, nextId, user))

Login ==
    \E user \in LoginInputs(now) :
        Apply("authenticate_user", "Persistence", user, Return(NoneValue),
              Auth_authenticate_user("Persistence", users, nextId, now, user))

GetUserById ==
    \E gw \in AsyncGateways, id \in Ids :
      \E mock \in MockFor(gw, MockLookupOutcomes) :
        Apply("get_user_by_id", gw, [NoUser EXCEPT !.id = id], mock,
              UC_get_user_by_id(gw, users, nextId, id, mock))

GetUserByEmail ==
    \E gw \in AsyncGateways, email \in Emails :
      \E mock \in MockFor(gw, MockLookupOutcomes) :
        Apply("get_user_by_email", gw, [NoUser EXCEPT !.email = email], mock,
              UC_get_user_by_email(gw, users, nextId, email, mock))

Tick ==
    /\ now < MaxTime
    /\ now' = now + 1
    /\ last' = Record("tick", "", NoUser, Return(NoneValue), users,
                       Done(Return(NoneValue), users, nextId, <<>>))
    /\ UNCHANGED <<users, nextId, held, inflight>>

Next ==
    \/ CreateUser
    \/ UpdateUser
    \/ UpdateUserRequest
    \/ GetUser
    \/ Login
    \/ GetUserById
    \/ GetUserByEmail
    \/ Tick

Spec == Init /\ [][Next]_vars

----------------------------------------------------------------------------
(* Tokens over time.  A client holds the token a call handed it together   *)
(* with what it knows about it: the claim set it passed (as that dict is   *)
(* after the call) and the instant of issue.  The clock runs past the      *)
(* lifetime of a token.                                                    *)

Grant(token, data, t) == [tag |-> "grant", token |-> token, data |-> data, at |-> t]

TokenTimes ==
    (0..MaxTime) \cup
    {ACCESS_TOKEN_EXPIRE_MINUTES + d : d \in (0 - 1)..(MaxTime + 1)}

(* An nbf instant the clock never reaches. *)
NotYet == ACCESS_TOKEN_EXPIRE_MINUTES + MaxTime + 2

(* The dicts passed to create_access_token: any of the subject, a private  *)
(* claim, and the registered claims aud, nbf and exp.                      *)
Claims(sub, role, aud, nbf, exp) ==
    [k \in {x \in {"sub"} : sub # NoneStr} \cup {x \in {"role"} : role # NoneStr}
         \cup {x \in {"aud"} : aud # NoneStr} \cup {x \in {"nbf"} : nbf # NoneInt}
         \cup {x \in {"exp"} : exp # NoneInt} |->
        CASE k = "sub" -> sub [] k = "role" -> role [] k = "aud" -> aud
          [] k = "nbf" -> nbf [] k = "exp" -> exp]

ClaimSets ==
    {Claims(sub, role, aud, nbf, exp) :
        sub \in {NoneStr, "a@b.com"}, role \in {NoneStr, "admin"},
        aud \in {NoneStr, "api"}, nbf \in {NoneInt, NotYet},
        exp \in {NoneInt, 0}}

(* What can be sent as a bearer token: the token held, that token with its *)
(* signature made under another key or its header naming another           *)
(* algorithm, the held claims signed with the server's key as they are,    *)
(* and a string that is no token.                                          *)
Presented ==
    IF held = NoneValue THEN {MalformedToken}
    ELSE {held.token, MalformedToken,
          [held.token EXCEPT !.key = "other-key"],
          [held.token EXCEPT !.alg = "none"],
          [held.token EXCEPT !.alg = "HS512"],
          jwt_encode(held.data, SECRET_KEY, ALGORITHM)}

TokenUpdateInputs(t) ==
    {User(1, e, p, t, NoneInt, NoneInt) :
        e \in Emails, p \in {NoPassword, Plain("password2")}}

TokenInit ==
    /\ users = {SeedRow(1, "a@b.com", "password1")}
    /\ nextId = Cardinality(users) + 1
    /\ now = 0
    /\ last = Record("init", "", NoUser, Return(NoneValue), users,
                     Done(Return(NoneValue), users, nextId, <<>>))
    /\ held = NoneValue
    /\ inflight = <<>>

CreateToken ==
    \E data \in ClaimSets :
        /\ held' = Grant(create_access_token(data, now),
                         create_access_token_arg(data, now), now)
        /\ last' = Record("create_access_token", "", data, Return(NoneValue), users,
                          Done(Return(create_access_token(data, now)), users,
                               nextId, <<>>))
        /\ UNCHANGED <<users, nextId, now, inflight>>

(* A login; the client keeps the token it had or takes the new one. *)
TokenLogin ==
    \E user \in LoginInputs(now) :
        LET r == Auth_authenticate_user("Persistence", users, nextId, now, user)
        IN /\ last' = Record("authenticate_user", "Persistence", user,
                             Return(NoneValue), users, r)
           /\ \/ held' = held
              \/ /\ r.out.kind = "return"
                 /\ r.out.value # NoneValue
                 /\ held' = Grant(r.out.value, [sub |-> user.email], now)
           /\ UNCHANGED <<users, nextId, now, inflight>>

VerifyToken ==
    \E token \in Presented, pyjwt \in PyJWTVersions :
        /\ last' = Record("verify_token", "", token, Return(NoneValue), users,
                          Done(verify_token(token, now, pyjwt), users, nextId, <<>>))
        /\ UNCHANGED <<users, nextId, now, held, inflight>>

TokenUpdateUser ==
    \E user \in TokenUpdateInputs(now), s \in Salts :
        Apply("update_user", "Persistence", user, Return(NoneValue),
              UC_update_user("Persistence", users, nextId, s, user, Return(NoneValue)))

Advance ==
    \E t \in TokenTimes :
        /\ t > now
        /\ now' = t
        /\ last' = Record("tick", "", NoUser, Return(NoneValue), users,
                          Done(Return(NoneValue), users, nextId, <<>>))
        /\ UNCHANGED <<users, nextId, held, inflight>>

TokenNext ==
    \/ CreateToken
    \/ TokenLogin
    \/ VerifyToken
    \/ TokenUpdateUser
    \/ Advance

TokenSpec == TokenInit /\ [][TokenNext]_vars

----------------------------------------------------------------------------
(* application/fast_api.py and entry_point/utils/exception_handler.py:     *)
(* the exception handlers create_app registers, and the dispatch of an     *)
(* exception that leaves an endpoint or one of its dependencies.           *)

(* The base class of an exception class (each class here has one base).    *)
Base(cls) ==
    CASE cls \in {"UserNotFoundException", "DuplicateUserException",
                  "InvalidCredentialsException", "InvalidTokenException",
                  "PersistenceException"} -> "DomainException"
      [] cls = "ExpiredTokenException" -> "InvalidTokenException"
      [] cls = "ValidationError" -> "ValueError"
      [] OTHER -> "Exception"

RECURSIVE mro(_)
mro(cls) == IF cls = "Exception" THEN <<cls>> ELSE <<cls>> \o mro(Base(cls))

(* app.add_exception_handler(...), lines 50-57, over the handler FastAPI   *)
(* installs for HTTPException.                                             *)
exception_handlers ==
    ("HTTPException" :> "http_exception_handler")
    @@ ("UserNotFoundException" :> "user_not_found_exception_handler")
    @@ ("DuplicateUserException" :> "duplicate_user_exception_handler")
    @@ ("InvalidCredentialsException" :> "invalid_credentials_exception_handler")
    @@ ("InvalidTokenException" :> "token_exception_handler")
    @@ ("PersistenceException" :> "persistence_exception_handler")
    @@ ("DomainException" :> "domain_exception_handler")
    @@ ("RequestValidationError" :> "validation_exception_handler")
    @@ ("Exception" :> "generic_exception_handler")

(* Mutant: the handler of the least specific registered class. *)
lookup_handler_least_specific(cls) ==
    LET m == mro(cls)
        i == CHOOSE i \in 1..Len(m) :
                /\ m[i] \in DOMAIN exception_handlers
                /\ \A j \in (i + 1)..Len(m) : m[j] \notin DOMAIN exception_handlers
    IN exception_handlers[m[i]]

(* Starlette walks type(exc).__mro__ and takes the first class that has a  *)
(* handler.                                                                *)
lookup_handler(cls) ==
    LET m == mro(cls)
        i == CHOOSE i \in 1..Len(m) :
                /\ m[i] \in DOMAIN exception_handlers
                /\ \A j \in 1..(i - 1) : m[j] \notin DOMAIN exception_handlers
    IN exception_handlers[m[i]]

(* A text shown to the caller: the wording and the values it names. *)
Text(wording, names) == [wording |-> wording, names |-> names]

(* exc.message of a DomainException: the wording of its class with the     *)
(* values the constructor was given.                                       *)
message(exc) == Text(exc.exc, exc.msg)

Bearer == {"WWW-Authenticate: Bearer"}

JSONResponse(status_code, content, headers) ==
    [status_code |-> status_code, content |-> content, headers |-> headers]

(* Mutant: the persistence handler puts the text of the underlying error   *)
(* in the response.                                                        *)
exception_handler_echo(handler, exc) ==
    CASE handler = "domain_exception_handler" ->
            JSONResponse(400, [detail |-> message(exc)], {})
      [] handler = "user_not_found_exception_handler" ->
            JSONResponse(404, [detail |-> message(exc)], {})
      [] handler = "duplicate_user_exception_handler" ->
            JSONResponse(409, [detail |-> message(exc)], {})
      [] handler = "invalid_credentials_exception_handler" ->
            JSONResponse(401, [detail |-> message(exc)], Bearer)
      [] handler = "token_exception_handler" ->
            JSONResponse(401, [detail |-> message(exc)], Bearer)
      [] handler = "persistence_exception_handler" ->
            JSONResponse(500, [detail |-> Text(exc.code, NoMsg)], {})
      [] handler = "validation_exception_handler" ->
            JSONResponse(422,
                         [detail |-> Text("La peticion no es valida.", NoMsg),
                          errors |-> exc.code], {})
      [] handler = "generic_exception_handler" ->
            JSONResponse(500,
                         [detail |-> Text("Ocurrio un error interno inesperado.",
                                          NoMsg)], {})
      [] handler = "http_exception_handler" ->
            JSONResponse(401, [detail |-> Text("Not authenticated", NoMsg)], Bearer)

(* The handlers of exception_handler.py, by name, and the handler FastAPI  *)
(* installs for HTTPException, which answers the 401 of                    *)
(* OAuth2PasswordBearer.  For a PersistenceException and for an exception  *)
(* of the driver, the code field of the exception holds the driver's error *)
(* text; for a RequestValidationError it holds exc.errors(), the fields at *)
(* fault.                                                                  *)
exception_handler(handler, exc) ==
    CASE handler = "domain_exception_handler" ->
            JSONResponse(400, [detail |-> message(exc)], {})
      [] handler = "user_not_found_exception_handler" ->
            JSONResponse(404, [detail |-> message(exc)], {})
      [] handler = "duplicate_user_exception_handler" ->
            JSONResponse(409, [detail |-> message(exc)], {})
      [] handler = "invalid_credentials_exception_handler" ->
            JSONResponse(401, [detail |-> message(exc)], Bearer)
      [] handler = "token_exception_handler" ->
            JSONResponse(401, [detail |-> message(exc)], Bearer)
      [] handler = "persistence_exception_handler" ->
            JSONResponse(500,
                         [detail |-> Text("Ocurrio un error inesperado en el servidor.",
                                          NoMsg)], {})
      [] handler = "validation_exception_handler" ->
            JSONResponse(422,
                         [detail |-> Text("La peticion no es valida.", NoMsg),
                          errors |-> exc.code], {})
      [] handler = "generic_exception_handler" ->
            JSONResponse(500,
                         [detail |-> Text("Ocurrio un error interno inesperado.",
                                          NoMsg)], {})
      [] handler = "http_exception_handler" ->
            JSONResponse(401, [detail |-> Text("Not authenticated", NoMsg)], Bearer)

(* The response to an exception that left the endpoint. *)
respond_to(exc) == exception_handler(lookup_handler(exc.exc), exc)

----------------------------------------------------------------------------
(* entry_point/controller/auth_controller.py: the four routes, the         *)
(* dependencies FastAPI solves before it calls them, and the AuthHandler   *)
(* behind them.  The handler is the AsyncMock the end-to-end tests put in  *)
(* its place ("MockAuthHandler", answering with what the test configured)  *)
(* or the AuthHandler of the sources over the use cases and one of the     *)
(* gateways "Persistence" and "UserDataGatewayImpl".                       *)

(* pydantic EmailStr: one "@" with a local part before it and, after it,   *)
(* a domain with a dot inside.                                             *)
EmailStr(s) ==
    \E i \in 2..(Len(s) - 3) :
        /\ SubSeq(s, i, i) = "@"
        /\ \A j \in 1..Len(s) : SubSeq(s, j, j) = "@" => j = i
        /\ \E j \in (i + 2)..(Len(s) - 1) : SubSeq(s, j, j) = "."

(* NewUserInput: the request body as FastAPI validates it; the             *)
(* code of the RequestValidationError names the fields at fault.           *)
NewUserInput(body) ==
    LET errors ==
            (IF EmailStr(body.email) THEN "" ELSE "email;")
            \o (IF Len(body.password) >= 8 THEN "" ELSE "password;")
            \o (IF body.profile_id > 0 THEN "" ELSE "profile_id;")
            \o (IF body.status_id > 0 THEN "" ELSE "status_id;")
    IN IF errors = "" THEN Return(body)
       ELSE Raise("RequestValidationError", errors, NoMsg)

map_user_dto_to_user(user_dto, t) ==
    User(NoneInt, user_dto.email, Plain(user_dto.password), t,
         user_dto.profile_id, user_dto.status_id)

UserOutput(id, email, creation_date, profile_id, status_id) ==
    [id |-> id, email |-> email, creation_date |-> creation_date,
     profile_id |-> profile_id, status_id |-> status_id]

(* Mutant: the output carries the whole user. *)
map_user_to_user_output_dto_whole(user) ==
    IF user = NoneValue THEN Raise("AttributeError", "", NoMsg)
    ELSE Return(user)

(* user.id of None is an AttributeError. *)
map_user_to_user_output_dto(user) ==
    IF user = NoneValue THEN Raise("AttributeError", "", NoMsg)
    ELSE Return(UserOutput(user.id, user.email, user.creation_date,
                           user.profile_id, user.status_id))

(* Token(access_token=token_str, token_type="bearer"): access_token is a   *)
(* required str.                                                           *)
TokenOutput(token_str) ==
    IF token_str = NoneValue THEN Raise("ValidationError", "", NoMsg)
    ELSE Return([access_token |-> token_str, token_type |-> "bearer"])

(* "x = await self.usecase.method(...)": a method of the use cases is a    *)
(* plain function, so what is awaited is what it returned: the coroutine   *)
(* of a coroutine gateway, which runs now, or the value of a plain         *)
(* gateway, which cannot be awaited.                                       *)
Await(gw, r) ==
    IF r.out.kind = "return" /\ gw \in SyncGateways
    THEN Done(Raise("TypeError", "", NoMsg), r.users, r.nextId, r.calls)
    ELSE r

Then(r, f(_)) ==
    IF r.out.kind = "raise" THEN r
    ELSE Done(f(r.out.value), r.users, r.nextId, r.calls)

AuthHandler_create_user(gw, us, n, t, s, user_dto, mock) ==
    IF gw = "MockAuthHandler" THEN Done(mock, us, n, <<>>)
    ELSE Then(Await(gw, UC_create_user(gw, us, n, t, s,
                                       map_user_dto_to_user(user_dto, t),
                                       Return(NoneValue))),
              map_user_to_user_output_dto)

(* get_user_by_email and get_user_by_id of the use case are coroutines     *)
(* over an IUserDataGateway.                                               *)
AuthHandler_get_user(gw, us, n, get_user_dto, mock) ==
    IF gw = "MockAuthHandler" THEN Done(mock, us, n, <<>>)
    ELSE IF TruthyStr(get_user_dto.email)
    THEN Then(UC_get_user_by_email(gw, us, n, get_user_dto.email, Return(NoneValue)),
              map_user_to_user_output_dto)
    ELSE IF TruthyInt(get_user_dto.id)
    THEN Then(UC_get_user_by_id(gw, us, n, get_user_dto.id, Return(NoneValue)),
              map_user_to_user_output_dto)
    ELSE Done(map_user_to_user_output_dto(NoneValue), us, n, <<>>)

(* Over a coroutine gateway authenticate_user reads .password of the       *)
(* coroutine get_user_by_email returned, which is never run: the           *)
(* AttributeError becomes KOG01.                                           *)
AuthHandler_login(gw, us, n, t, login_dto, mock) ==
    LET user == User(NoneInt, login_dto.email, login_dto.password, t,
                     NoneInt, NoneInt)
    IN IF gw = "MockAuthHandler" THEN Done(mock, us, n, <<>>)
       ELSE IF gw \in AsyncGateways
       THEN Done(CustomException("KOG01"), us, n,
                 <<Call("get_user_by_email", NoneInt, user.email, NoneValue)>>)
       ELSE Then(Await(gw, Auth_authenticate_user(gw, us, n, t, user)), TokenOutput)

AuthHandler_update_user(gw, us, n, t, s, update_user_dto, mock) ==
    IF gw = "MockAuthHandler" THEN Done(mock, us, n, <<>>)
    ELSE Then(Await(gw, Handler_update_user(gw, us, n, t, s, update_user_dto)),
              map_user_to_user_output_dto)

(* The header of a request that sends no Authorization. *)
NoHeader == [tag |-> "absent", payload |-> <<>>, key |-> "", alg |-> ""]

(* Mutant: the payload is read without verifying the token. *)
get_current_user_unverified(authorization, t, pyjwt) ==
    IF authorization = NoHeader THEN Raise("HTTPException", "", NoMsg)
    ELSE Return(authorization.payload)

(* token: str = Depends(oauth2_scheme): OAuth2PasswordBearer answers a     *)
(* request without a bearer token with HTTPException(401).                 *)
get_current_user(authorization, t, pyjwt) ==
    IF authorization = NoHeader THEN Raise("HTTPException", "", NoMsg)
    ELSE verify_token(authorization, t, pyjwt)

ResponseDTO(apiCode, data, text, status) ==
    [apiCode |-> apiCode, data |-> data, message |-> text, status |-> status]

(* What came of a request: the response, whether the AuthHandler was       *)
(* called, and what the call did.                                          *)
Served(response, invoked, r) ==
    [out |-> r.out, users |-> r.users, nextId |-> r.nextId, calls |-> r.calls,
     invoked |-> invoked, response |-> response]

(* A route: the dependencies and the body are solved first and their       *)
(* exception is answered without calling the endpoint; an exception of     *)
(* the handler is answered by the handler registered for it.               *)
Route(status_code, apiCode, text, solved, us, n, r) ==
    IF solved.kind = "raise"
    THEN Served(respond_to(solved), FALSE, Done(solved, us, n, <<>>))
    ELSE IF r.out.kind = "raise"
    THEN Served(respond_to(r.out), TRUE, r)
    ELSE Served(JSONResponse(status_code,
                             ResponseDTO(apiCode, r.out.value, text, TRUE),
                             {}),
                TRUE, r)

create_user(gw, us, n, t, s, body, mock) ==
    Route(201, "201", "User created successfully", NewUserInput(body), us, n,
          AuthHandler_create_user(gw, us, n, t, s, body, mock))

get_user(gw, us, n, t, pyjwt, authorization, get_user_dto, mock) ==
    Route(200, "200", "User retrieved successfully",
          get_current_user(authorization, t, pyjwt), us, n,
          AuthHandler_get_user(gw, us, n, get_user_dto, mock))

login(gw, us, n, t, login_dto, mock) ==
    Route(200, "200", "Login successful", Return(login_dto), us, n,
          AuthHandler_login(gw, us, n, t, login_dto, mock))

update_user(gw, us, n, t, s, pyjwt, authorization, update_user_dto, mock) ==
    Route(200, "200", "User updated successfully",
          get_current_user(authorization, t, pyjwt), us, n,
          AuthHandler_update_user(gw, us, n, t, s, update_user_dto, mock))

----------------------------------------------------------------------------
(* Requests over HTTP.  The store starts with one user and the client      *)
(* with no token or with the token issued to that user at instant 0; the   *)
(* clock (Advance) runs past the token's expiry.                           *)

MockOutput == UserOutput(1, "a@b.com", 0, 1, 1)

(* What a test configures on the AsyncMock handler: return_value, or a     *)
(* side_effect of any class the application can raise.                     *)
MockHandlerOutcomes ==
    {Return(MockOutput), UserNotFoundException(1, NoneStr),
     DuplicateUserException("a@b.com"),
     Raise("InvalidCredentialsException", "", NoMsg),
     InvalidTokenException, ExpiredTokenException,
     Raise("DomainException", "", NoMsg), CustomException("KOG01")}
    \cup {Raise(cls, text, NoMsg) :
            cls \in {"PersistenceException", "SQLAlchemyError"},
            text \in {"connection refused", "deadlock detected"}}

HandlerFor(gw, outcomes) ==
    IF gw = "MockAuthHandler" THEN outcomes ELSE {Return(NoneValue)}

(* What a request can carry as Authorization: nothing, a string that is no *)
(* token, the token held, and that token signed with another key.          *)
Authorizations ==
    {NoHeader, MalformedToken}
    \cup (IF held = NoneValue THEN {}
          ELSE {held.token, [held.token EXCEPT !.key = "other-key"]})

HttpInit ==
    /\ users = {SeedRow(1, "a@b.com", "password1")}
    /\ nextId = Cardinality(users) + 1
    /\ now = 0
    /\ last = Record("init", "", NoUser, Return(NoneValue), users,
                     Done(Return(NoneValue), users, nextId, <<>>))
    /\ held \in {NoneValue,
                 Grant(create_access_token([sub |-> "a@b.com"], 0),
                       [sub |-> "a@b.com"], 0)}
    /\ inflight = <<>>

Serve(op, gw, arg, authorization, mock, r) ==
    /\ users' = r.users
    /\ nextId' = r.nextId
    /\ last' = [op |-> op, gw |-> gw, arg |-> arg, mock |-> mock, pre |-> users,
                out |-> r.out, calls |-> r.calls, authorization |-> authorization,
                invoked |-> r.invoked, response |-> r.response]
    /\ UNCHANGED <<now, held, inflight>>

PostCreateUser ==
    \E gw \in {"MockAuthHandler", "Persistence", "UserDataGatewayImpl"},
       e \in {"c@d.com", "invalid-email"}, p \in {"password2", "short"},
       s \in Salts :
      LET body == [email |-> e, password |-> p, profile_id |-> 1, status_id |-> 1]
      IN
      \E mock \in HandlerFor(gw, MockHandlerOutcomes) :
        /\ nextId <= MaxId
        /\ Serve("create_user", gw, body, NoHeader, mock,
                 create_user(gw, users, nextId, now, s, body, mock))

PostGetUser ==
    \E gw \in {"MockAuthHandler", "UserDataGatewayImpl"},
       authorization \in Authorizations, pyjwt \in PyJWTVersions,
       id \in {NoneInt, 1}, email \in {NoneStr, "a@b.com"} :
      LET get_user_dto == [id |-> id, email |-> email]
      IN
      \E mock \in HandlerFor(gw, {Return(MockOutput)}) :
        Serve("get_user", gw, get_user_dto, authorization, mock,
              get_user(gw, users, nextId, now, pyjwt, authorization,
                       get_user_dto, mock))

PostLogin ==
    \E gw \in {"MockAuthHandler", "Persistence", "UserDataGatewayImpl"},
       email \in Emails, password \in Plaintexts :
      LET login_dto == [email |-> email, password |-> Plain(password)]
      IN
      \E mock \in HandlerFor(gw, {Return([access_token |-> MalformedToken,
                                           token_type |-> "bearer"]),
                                  Raise("InvalidCredentialsException", "", NoMsg)}) :
        Serve("login", gw, login_dto, NoHeader, mock,
              login(gw, users, nextId, now, login_dto, mock))

PostUpdateUser ==
    \E gw \in {"MockAuthHandler", "Persistence", "UserDataGatewayImpl"},
       authorization \in Authorizations, pyjwt \in PyJWTVersions,
       email \in {NoneStr, "c@d.com"}, s \in Salts :
      LET update_user_dto == User(1, email, NoPassword, NoneInt, NoneInt, 2)
      IN
      \E mock \in HandlerFor(gw, {Return(MockOutput)}) :
        Serve("update_user", gw, update_user_dto, authorization, mock,
              update_user(gw, users, nextId, now, s, pyjwt, authorization,
                          update_user_dto, mock))

HttpNext ==
    \/ PostCreateUser
    \/ PostGetUser
    \/ PostLogin
    \/ PostUpdateUser
    \/ Advance

HttpSpec == HttpInit /\ [][HttpNext]_vars

----------------------------------------------------------------------------
(* Two callers using the same use-case and gateway objects at once.  A     *)
(* call of create_user or update_user runs in steps that other calls can   *)
(* come between: the use case's own part up to the gateway call, the       *)
(* gateway's first statement against the database (the existence check of  *)
(* Persistence, the mapping of UserDataGatewayImpl), and its write.  What  *)
(* a call keeps between its steps are its local variables; inflight holds  *)
(* them per caller, with the table as it was at each of the two steps.     *)

InFlight(pc, op, gw, arg, user, existing, read, wrote, out) ==
    [pc |-> pc, op |-> op, gw |-> gw, arg |-> arg, user |-> user,
     existing |-> existing, read |-> read, wrote |-> wrote, out |-> out]

Idle ==
    InFlight("idle", "", "", NoUser, NoUser, Return(NoneValue), {}, {},
             Return(NoneValue))

(* Mutant: the prepared user is kept in a field of the use case, which the *)
(* other call in flight overwrites.                                        *)
Local_instance_field(fl, c) ==
    IF \E d \in DOMAIN fl : d # c /\ fl[d].pc \in {"prepared", "looked"}
    THEN fl[CHOOSE d \in DOMAIN fl : d # c /\ fl[d].pc \in {"prepared", "looked"}].user
    ELSE fl[c].user

(* The local variable user of the call of caller c. *)
Local(fl, c) == fl[c].user

ConcInit ==
    /\ users = {SeedRow(1, "a@b.com", "password1")}
    /\ nextId = Cardinality(users) + 1
    /\ now = 0
    /\ last = Record("init", "", NoUser, Return(NoneValue), users,
                     Done(Return(NoneValue), users, nextId, <<>>))
    /\ held = NoneValue
    /\ inflight = [c \in {1, 2} |-> Idle]

(* The use case's part of a call: create_user stamps the creation_date and *)
(* hashes the password, update_user hashes a supplied password; both then  *)
(* call the gateway.                                                       *)
Invoke(c) ==
    \E op \in {"create_user", "update_user"}, email \in Emails, s \in Salts :
      \E gw \in IF op = "create_user" THEN {"Persistence", "UserDataGatewayImpl"}
                ELSE {"Persistence"} :
        LET arg == IF op = "create_user"
                   THEN User(NoneInt, email, Plain("password2"), NoneInt, 1, 1)
                   ELSE User(1, email, NoPassword, now, NoneInt, 2)
            hashed == hash_password(arg.password, s)
            user == IF op = "create_user"
                    THEN [arg EXCEPT !.creation_date = now, !.password = hashed.value]
                    ELSE IF arg.password # NoPassword
                    THEN [arg EXCEPT !.password = hashed.value]
                    ELSE arg
        IN /\ inflight[c].pc = "idle"
           /\ nextId <= MaxId
           /\ inflight' =
                [inflight EXCEPT ![c] =
                    IF arg.password # NoPassword /\ hashed.kind = "raise"
                    THEN InFlight("done", op, gw, arg, arg, Return(NoneValue),
                                  users, users, ExceptClauses(hashed))
                    ELSE InFlight("prepared", op, gw, arg, user, Return(NoneValue),
                                  {}, {}, Return(NoneValue))]
           /\ UNCHANGED <<users, nextId, now, last, held>>

(* The gateway's first statement: Persistence.create_user looks the email  *)
(* up, Persistence.update_user the id, UserDataGatewayImpl.create_user     *)
(* maps the user to an entity.  A failure ends the call.                   *)
Lookup(c) ==
    LET f == inflight[c]
        user == Local(inflight, c)
        existing == CASE f.gw = "UserDataGatewayImpl" -> to_entity(user)
                      [] f.op = "create_user" -> Repo_get_user_by_email(users, user.email)
                      [] f.op = "update_user" -> Repo_get_user_by_id(users, user.id)
    IN /\ f.pc = "prepared"
       /\ inflight' =
            [inflight EXCEPT ![c] =
                IF existing.kind = "raise"
                THEN [f EXCEPT !.pc = "done", !.existing = existing, !.read = users,
                               !.wrote = users, !.out = Delegated(f.gw, existing)]
                ELSE [f EXCEPT !.pc = "looked", !.existing = existing,
                               !.read = users]]
       /\ UNCHANGED <<users, nextId, now, last, held>>

(* The gateway's write, flushed and committed, and the return. *)
Write(c) ==
    LET f == inflight[c]
        user == Local(inflight, c)
        g == CASE f.gw = "UserDataGatewayImpl" ->
                    LET saved == AsyncRepo_create_user(users, nextId, f.existing.value)
                    IN IF saved.out.kind = "raise"
                       THEN Step(DuplicateUserException(user.email), users, nextId)
                       ELSE Step(Return(to_domain(saved.out.value)),
                                 saved.users, saved.nextId)
               [] f.op = "create_user" ->
                    IF f.existing.value # NoneValue
                    THEN Step(CustomException("KOU01"), users, nextId)
                    ELSE Repo_create_user(users, nextId, from_user(user))
               [] f.op = "update_user" ->
                    Repo_update_user(users, nextId,
                                     map_update_to_entity(user, f.existing.value))
    IN /\ f.pc = "looked"
       /\ users' = g.users
       /\ nextId' = g.nextId
       /\ inflight' = [inflight EXCEPT ![c] =
                          [f EXCEPT !.pc = "done", !.wrote = users,
                                    !.out = Delegated(f.gw, g.out)]]
       /\ UNCHANGED <<now, last, held>>

(* The caller takes the result; it may call again. *)
Complete(c) ==
    /\ inflight[c].pc = "done"
    /\ inflight' = [inflight EXCEPT ![c] = Idle]
    /\ UNCHANGED <<users, nextId, now, last, held>>

ConcNext ==
    \/ \E c \in DOMAIN inflight : Invoke(c)
    \/ \E c \in DOMAIN inflight : Lookup(c)
    \/ \E c \in DOMAIN inflight : Write(c)
    \/ \E c \in DOMAIN inflight : Complete(c)

ConcSpec == ConcInit /\ [][ConcNext]_vars

----------------------------------------------------------------------------
(* The credential utility on its own: a password P2 is hashed and a        *)
(* password P1 is verified against the hash.  User.password and the DTOs   *)
(* set a minimum length of 8 and no maximum.                               *)

Block8 == "abcdefgh"
Prefix72 ==
    Block8 \o Block8 \o Block8 \o Block8 \o Block8 \o Block8 \o Block8
           \o Block8 \o Block8

PasswordTexts ==
    Plaintexts \cup {Prefix72, Prefix72 \o "x", Prefix72 \o "y"}

PasswordSalts == {1, 2}

Attempt(P1, P2, hashed) == [P1 |-> P1, P2 |-> P2, hashed |-> hashed]

PasswordInit ==
    /\ users = {}
    /\ nextId = 1
    /\ now = 0
    /\ held = NoneValue
    /\ inflight = <<>>
    /\ \E P1 \in PasswordTexts, P2 \in PasswordTexts :
          last = Record("init", "", Attempt(Plain(P1), Plain(P2), NoPassword),
                        Return(NoneValue), users,
                        Done(Return(NoneValue), users, nextId, <<>>))

HashPassword ==
    \E s \in PasswordSalts :
        LET hashed == hash_password(last.arg.P2, s)
        IN /\ last.op = "init"
           /\ last' = Record("hash_password", "",
                             [last.arg EXCEPT !.hashed = hashed.value],
                             Return(NoneValue), users,
                             Done(hashed, users, nextId, <<>>))
           /\ UNCHANGED <<users, nextId, now, held, inflight>>

VerifyPassword ==
    /\ last.op = "hash_password"
    /\ last.out.kind = "return"
    /\ last' = Record("verify_password", "", last.arg, Return(NoneValue), users,
                      Done(verify_password_call(last.arg.P1, last.arg.hashed),
                           users, nextId, <<>>))
    /\ UNCHANGED <<users, nextId, now, held, inflight>>

PasswordNext ==
    \/ HashPassword
    \/ VerifyPassword

PasswordSpec == PasswordInit /\ [][PasswordNext]_vars

----------------------------------------------------------------------------
(* Properties *)

StoredEmail(us, email) == RowsByEmail(us, email) # {}

(* The credentials name a stored user and the plaintext whose hash that    *)
(* user's row holds.                                                       *)
Verifies(us, cred) ==
    \E r \in us :
        /\ r.email = cred.email
        /\ cred.password.tag = "plain"
        /\ r.password.tag = "bcrypt"
        /\ r.password.text = cred.password.text

WrongPassword(us, cred) ==
    /\ StoredEmail(us, cred.email)
    /\ cred.password.tag = "plain"
    /\ ~Verifies(us, cred)

InvalidCredentials == Raise("InvalidCredentialsException", "", NoMsg)

(* C1: in every reachable state, the password of every stored user is a    *)
(* bcrypt hash produced by hash_password: never a plaintext a caller       *)
(* supplied, never empty, never absent.                                    *)
C1_StoredPasswordsHashed ==
    \A r \in users :
        /\ r.password.tag = "bcrypt"
        /\ r.password \notin PasswordInputs
        /\ r.password # Plain("")

(* C1 witness: update_user with a new plaintext succeeded and the row now  *)
(* holds the hash of that plaintext under a salt drawn during the call.    *)
C1_Witness ==
    /\ last.op = "update_user"
    /\ last.out.kind = "return"
    /\ last.arg.password.tag = "plain"
    /\ \E r \in users :
          /\ r.id = last.arg.id
          /\ r.password = Bcrypt(last.arg.password.text, r.password.salt)
          /\ r.password.salt \in Salts
          /\ r \notin last.pre

(* C2: authenticate_user with an email no stored user has ends exactly as  *)
(* authenticate_user with a stored email and a wrong password does: with   *)
(* the same InvalidCredentials error.                                      *)
C2_UnknownEmailLikeWrongPassword ==
    (/\ last.op = "authenticate_user"
     /\ last.arg.password.tag = "plain"
     /\ ~StoredEmail(last.pre, last.arg.email))
    => /\ last.out = InvalidCredentials
       /\ \A b \in LoginInputs(now) :
             WrongPassword(last.pre, b) =>
                 Auth_authenticate_user("Persistence", last.pre, nextId, now, b).out
                     = last.out

(* C3: authenticate_user with a stored email and a plaintext that does not *)
(* verify against the stored hash fails with InvalidCredentialsException.  *)
C3_WrongPasswordRaises ==
    (last.op = "authenticate_user" /\ WrongPassword(last.pre, last.arg))
    => last.out = InvalidCredentials

IsDuplicateError(out) ==
    /\ out.kind = "raise"
    /\ \/ out.exc = "DuplicateUserException"
       \/ out.exc = "CustomException" /\ out.code = "KOU01"

IsNotFoundError(out) ==
    /\ out.kind = "raise"
    /\ \/ out.exc = "UserNotFoundException"
       \/ out.exc = "CustomException" /\ out.code = "KOU02"

StoreGateways == {"Persistence", "UserDataGatewayImpl"}

(* C5: create_user with an email a stored user already has fails with the  *)
(* duplicate-user error and leaves the store as it was.                    *)
C5_DuplicateCreateRejected ==
    (/\ last.op = "create_user"
     /\ last.gw \in StoreGateways
     /\ last.arg.password.tag = "plain"
     /\ StoredEmail(last.pre, last.arg.email))
    => /\ IsDuplicateError(last.out)
       /\ users = last.pre

(* C6: no two stored users share an email, and update_user that would give *)
(* a user the email of another stored user fails with the duplicate-user   *)
(* error and changes neither user.                                         *)
C6_EmailUnique ==
    /\ \A r1, r2 \in users : r1.email = r2.email => r1 = r2
    /\ (/\ last.op = "update_user"
        /\ last.gw \in StoreGateways
        /\ last.arg.password # Plain("")
        /\ RowsById(last.pre, last.arg.id) # {}
        /\ \E r \in last.pre : r.id # last.arg.id /\ r.email = last.arg.email)
       => /\ IsDuplicateError(last.out)
          /\ users = last.pre

(* C7: create_user with valid input and an email no stored user has        *)
(* succeeds: it returns a user with an id, the supplied email, a password  *)
(* that is not the supplied plaintext and a creation date; the user is in  *)
(* the store afterwards; the gateway was handed the hashed password.       *)
C7_FreshCreateSucceeds ==
    (/\ last.op = "create_user"
     /\ last.gw \in StoreGateways
     /\ last.arg.password.tag = "plain"
     /\ ~StoredEmail(last.pre, last.arg.email))
    => /\ last.out.kind = "return"
       /\ last.out.value.id # NoneInt
       /\ last.out.value.email = last.arg.email
       /\ last.out.value.password # last.arg.password
       /\ last.out.value.creation_date # NoneInt
       /\ \E r \in users :
             r.email = last.arg.email /\ r.id = last.out.value.id
       /\ Len(last.calls) = 1
       /\ last.calls[1].user.password.tag = "bcrypt"

(* C8: when the gateway's create_user raises DuplicateUserException, the   *)
(* caller of the use case's create_user gets that same exception, naming   *)
(* the email, and no other error.                                          *)
C8_DuplicatePropagates ==
    (/\ last.op = "create_user"
     /\ last.calls # <<>>
     /\ last.gw = "AsyncMock"
     /\ last.mock.kind = "raise"
     /\ last.mock.exc = "DuplicateUserException")
    => /\ last.out = last.mock
       /\ last.out = DuplicateUserException(last.arg.email)
       /\ last.out.msg.email = last.arg.email

(* C8 witness: the gateway was called, raised DuplicateUserException, and  *)
(* the use case ended with an exception of that type.                      *)
C8_Witness ==
    /\ last.op = "create_user"
    /\ last.gw = "AsyncMock"
    /\ Len(last.calls) = 1
    /\ last.mock.exc = "DuplicateUserException"
    /\ last.out.kind = "raise"

(* C9: get_user_by_id calls the gateway's get_user_by_id exactly once with *)
(* the given id; when the gateway returns a user it returns that user      *)
(* unchanged; when the gateway returns nothing it raises                   *)
(* UserNotFoundException naming the id.                                    *)
C9_GetUserById ==
    last.op = "get_user_by_id" =>
        /\ last.calls = <<Call("get_user_by_id", last.arg.id, NoneStr, NoneValue)>>
        /\ users = last.pre
        /\ (last.gw = "AsyncMock" /\ last.mock # Return(NoneValue))
              => last.out = last.mock
        /\ (last.gw = "UserDataGatewayImpl" /\ RowsById(last.pre, last.arg.id) # {})
              => /\ last.out.kind = "return"
                 /\ last.out.value \in last.pre
                 /\ last.out.value.id = last.arg.id
        /\ (\/ last.gw = "AsyncMock" /\ last.mock = Return(NoneValue)
            \/ last.gw = "UserDataGatewayImpl" /\ RowsById(last.pre, last.arg.id) = {})
              => /\ last.out.kind = "raise"
                 /\ last.out.exc = "UserNotFoundException"
                 /\ last.out.msg.user_id = last.arg.id

(* C9 witness: the gateway had no user for the id and the lookup raised.   *)
C9_Witness ==
    /\ last.op = "get_user_by_id"
    /\ last.gw = "UserDataGatewayImpl"
    /\ last.pre # {}
    /\ RowsById(last.pre, last.arg.id) = {}
    /\ last.out.kind = "raise"

C11_PartialUpdate ==
    (/\ last.op = "handler_update_user"
     /\ RowsById(last.pre, last.arg.id) # {}
     /\ ~\E r \in last.pre : r.id # last.arg.id /\ r.email = last.arg.email)
    => /\ last.out.kind = "return"
       /\ Cardinality(users) = Cardinality(last.pre)
       /\ \A r \in last.pre : r.id # last.arg.id => r \in users
       /\ \E old \in last.pre, new \in users :
            /\ old.id = last.arg.id
            /\ new.id = last.arg.id
            /\ new.email = IF last.arg.email = NoneStr
                           THEN old.email ELSE last.arg.email
            /\ IF last.arg.password = NoPassword
               THEN new.password = old.password
               ELSE /\ new.password.tag = "bcrypt"
                    /\ new.password.text = last.arg.password.text
            /\ new.profile_id = IF last.arg.profile_id = NoneInt
                                THEN old.profile_id ELSE last.arg.profile_id
            /\ new.status_id = IF last.arg.status_id = NoneInt
                               THEN old.status_id ELSE last.arg.status_id
            /\ new.creation_date = old.creation_date

(* C12: update_user with an id no stored user has fails with the          *)
(* not-found error exactly as the gateway raised it, and the store is left *)
(* as it was.                                                              *)
C12_UpdateUnknownId ==
    (/\ last.op = "update_user"
     /\ last.gw \in StoreGateways
     /\ last.arg.id \in Ids
     /\ RowsById(last.pre, last.arg.id) = {})
    => /\ IsNotFoundError(last.out)
       /\ Len(last.calls) = 1
       /\ last.out = Gateway_update_user(last.gw, last.pre, nextId,
                                         last.calls[1].user, Return(NoneValue)).out
       /\ last.gw = "Persistence" => last.out = CustomException("KOU02")
       /\ last.gw = "UserDataGatewayImpl" =>
             /\ last.out.exc = "UserNotFoundException"
             /\ last.out.msg.user_id = last.arg.id
       /\ users = last.pre

(* C12 witness: an update naming an id missing from a non-empty store      *)
(* raised.                                                                 *)
C12_Witness ==
    /\ last.op = "update_user"
    /\ last.gw = "Persistence"
    /\ last.arg.id \in Ids
    /\ last.pre # {}
    /\ RowsById(last.pre, last.arg.id) = {}
    /\ last.out.kind = "raise"

(* C13: no step changes the creation_date of a stored user: after any      *)
(* sequence of updates a user's creation_date is the one first stored.     *)
C13_CreationDateImmutable ==
    [][\A r \in users : \A r2 \in users' :
          r2.id = r.id => r2.creation_date = r.creation_date]_vars

(* C13 witness: an update made at a time other than the user's             *)
(* creation_date changed the user's row and left the creation_date.        *)
C13_Witness ==
    /\ last.op \in {"update_user", "handler_update_user"}
    /\ last.out.kind = "return"
    /\ \E old \in last.pre, new \in users :
          /\ old.id = last.arg.id
          /\ new.id = last.arg.id
          /\ new # old
          /\ old.creation_date # now
          /\ new.creation_date = old.creation_date

(* C14: create_user hands the gateway a user whose creation_date is the    *)
(* time of the call, whatever creation_date the caller supplied, and any   *)
(* row the call stores carries that time.                                  *)
C14_CreationDateIsNow ==
    (last.op = "create_user" /\ last.calls # <<>>)
    => /\ last.calls[1].method = "create_user"
       /\ last.calls[1].user.creation_date = now
       /\ \A r \in users \ last.pre : r.creation_date = now

(* C14 witness: the caller supplied a creation_date other than the time of *)
(* the call and the gateway was handed the time of the call.               *)
C14_Witness ==
    /\ last.op = "create_user"
    /\ Len(last.calls) = 1
    /\ last.arg.creation_date # now
    /\ last.calls[1].user.creation_date = now

IdsOf(us) == {r.id : r \in us}

(* C15: no two stored users share an id, and no step removes a stored id   *)
(* or gives a stored user another id.                                      *)
C15_IdsUniqueImmutable ==
    /\ [](\A r1, r2 \in users : r1.id = r2.id => r1 = r2)
    /\ [][/\ IdsOf(users) \subseteq IdsOf(users')
          /\ Cardinality(users') >= Cardinality(users)]_vars

(* C15 witness: an update changed the email of a stored user and the row  *)
(* is still found under its id.                                            *)
C15_Witness ==
    /\ last.op = "update_user"
    /\ last.out.kind = "return"
    /\ \E old \in last.pre, new \in users :
          /\ old.id = last.arg.id
          /\ new.id = old.id
          /\ new.email # old.email

RegisteredClaims == {"exp", "nbf", "iat", "aud"}

(* The last call verified the held token before the instant of expiry. *)
VerifiedHeldBeforeExpiry ==
    /\ last.op = "verify_token"
    /\ held # NoneValue
    /\ last.arg = held.token
    /\ now < held.at + ACCESS_TOKEN_EXPIRE_MINUTES

(* The payload returned carries every claim of the held claim set, and exp. *)
ReturnsClaimsOf(out, data) ==
    /\ out.kind = "return"
    /\ "exp" \in DOMAIN out.value
    /\ \A k \in DOMAIN data : k \in DOMAIN out.value /\ out.value[k] = data[k]

VerifiedHeldWithout(claims) ==
    /\ last.op = "verify_token"
    /\ held # NoneValue
    /\ last.arg = held.token
    /\ DOMAIN held.data \cap claims = {}

CorrectlySigned(token) ==
    token.tag = "jwt" /\ token.alg = ALGORITHM /\ token.key = SECRET_KEY

(* The token's exp claim compares to the instant t as rel says. *)
ExpiryIs(token, rel, t) ==
    /\ CorrectlySigned(token)
    /\ "exp" \in DOMAIN token.payload
    /\ CASE rel = "before" -> token.payload["exp"] < t
         [] rel = "at" -> token.payload["exp"] = t
         [] rel = "after" -> token.payload["exp"] > t

(* The token has no nbf claim that lies in the future. *)
NbfReached(token, t) ==
    CorrectlySigned(token) =>
        ("nbf" \in DOMAIN token.payload => token.payload["nbf"] <= t)

C19_OnlyExpiryInvalidates ==
    (held # NoneValue /\ DOMAIN held.data = {"sub"}
        /\ now < held.at + ACCESS_TOKEN_EXPIRE_MINUTES)
      => \A pyjwt \in PyJWTVersions :
            verify_token(held.token, now, pyjwt) = Return(held.token.payload)

(* C19 witness: after the token's user changed both email and password,    *)
(* and time passed, the token was verified and its payload returned.       *)
C19_Witness ==
    /\ VerifiedHeldWithout(RegisteredClaims)
    /\ DOMAIN held.data = {"sub"}
    /\ now > held.at
    /\ users # {}
    /\ \A r \in users : r.email # held.data["sub"] /\ r.password.text = "password2"
    /\ last.out = Return(held.token.payload)

(* C20: verifying a password against its own hash is true, and verifying   *)
(* a different password against that hash returns false without raising.   *)
C20_PasswordRoundTrip ==
    last.op = "verify_password" =>
        /\ last.out.kind = "return"
        /\ last.out.value = (last.arg.P1 = last.arg.P2)

----------------------------------------------------------------------------
(* Requests over HTTP *)

HttpOps == {"create_user", "get_user", "login", "update_user"}

(* The request of the last step left the application as an exception. *)
Failed == last.op \in HttpOps /\ last.out.kind = "raise"

(* C21: every domain failure kind is answered with one HTTP status:        *)
(* UserNotFoundException 404, DuplicateUserException 409,                  *)
(* InvalidCredentialsException 401, InvalidTokenException and              *)
(* ExpiredTokenException 401, PersistenceException 500.  The handler is    *)
(* the one registered for the most specific class: an                      *)
(* ExpiredTokenException gets the answer of the token handler, not the 400 *)
(* of the DomainException handler nor the 500 of the generic one.          *)
C21_StatusPerFailure ==
    Failed =>
        LET cls == last.out.exc
            code == last.response.status_code
        IN /\ cls = "UserNotFoundException" => code = 404
           /\ cls = "DuplicateUserException" => code = 409
           /\ cls = "InvalidCredentialsException" => code = 401
           /\ cls = "InvalidTokenException" => code = 401
           /\ cls = "PersistenceException" => code = 500
           /\ cls = "ExpiredTokenException" =>
                /\ code = 401
                /\ last.response.headers = Bearer
                /\ last.response.content.detail = message(ExpiredTokenException)

(* C21 witness: a request to a protected route carried the token held,     *)
(* past its expiry, and was answered 401.                                  *)
C21_Witness ==
    /\ last.op = "get_user"
    /\ held # NoneValue
    /\ last.authorization = held.token
    /\ last.out = ExpiredTokenException
    /\ last.response.status_code = 401

(* The class of the last exception has no handler of its own below         *)
(* Exception.                                                              *)
Unhandled == Failed /\ lookup_handler(last.out.exc) = "generic_exception_handler"

(* C22: the response to a persistence failure and to an unhandled          *)
(* exception is a fixed 500 with a fixed message whatever the cause: it is *)
(* the same response for every text the underlying error can carry.        *)
C22_OpaqueServerError ==
    /\ (Failed /\ last.out.exc = "PersistenceException") =>
          last.response =
              JSONResponse(500,
                  [detail |-> Text("Ocurrio un error inesperado en el servidor.",
                                   NoMsg)], {})
    /\ Unhandled =>
          last.response =
              JSONResponse(500,
                  [detail |-> Text("Ocurrio un error interno inesperado.", NoMsg)],
                  {})
    /\ (Failed /\ last.response.status_code = 500) =>
          \A text \in {"connection refused", "deadlock detected", "syntax error"} :
              respond_to([last.out EXCEPT !.code = text]) = last.response

(* C22 witness: the handler behind a route raised a PersistenceException   *)
(* carrying a driver error text and the request was answered 500.          *)
C22_Witness ==
    /\ Failed
    /\ last.invoked
    /\ last.out.exc = "PersistenceException"
    /\ last.out.code = "deadlock detected"
    /\ last.response.status_code = 500

----------------------------------------------------------------------------
(* The classes of the errors the application defines. *)
TypedErrors ==
    {"CustomException", "DomainException", "UserNotFoundException",
     "DuplicateUserException", "InvalidCredentialsException",
     "InvalidTokenException", "ExpiredTokenException", "PersistenceException"}

(* C23: within one call of create_user, update_user, get_user or           *)
(* authenticate_user every gateway operation is invoked at most once, and  *)
(* a call in which the gateway failed ends at once with a typed error and  *)
(* no further gateway call.                                                *)
C23_NoRetry ==
    last.op \in {"create_user", "update_user", "get_user", "authenticate_user"} =>
        /\ \A i, j \in DOMAIN last.calls :
              last.calls[i].method = last.calls[j].method => i = j
        /\ (last.calls # <<>> /\ last.out.kind = "raise") =>
              /\ Len(last.calls) = 1
              /\ last.out.exc \in TypedErrors

(* C25: a create-user request whose email is not an email address or whose *)
(* password is shorter than 8 characters is answered 422 with apiCode      *)
(* "422", status false and the errors under data, before the handler or a  *)
(* use case is invoked, and the store is unchanged.                        *)
C25_ValidationRejected ==
    (/\ last.op = "create_user"
     /\ ~EmailStr(last.arg.email) \/ Len(last.arg.password) < 8)
    => /\ last.response.status_code = 422
       /\ ~last.invoked
       /\ last.calls = <<>>
       /\ users = last.pre
       /\ "apiCode" \in DOMAIN last.response.content
       /\ last.response.content.apiCode = "422"
       /\ "status" \in DOMAIN last.response.content
       /\ last.response.content.status = FALSE
       /\ "data" \in DOMAIN last.response.content
       /\ "errors" \in DOMAIN last.response.content.data

(* The request of the last step carried no token verify_token accepts: no  *)
(* Authorization, a string that is no token, a token signed with another   *)
(* key or algorithm, or a token whose expiry has passed.                   *)
BadToken ==
    \/ last.authorization = NoHeader
    \/ ~CorrectlySigned(last.authorization)
    \/ ExpiryIs(last.authorization, "before", now)

(* C26: on the get-user and update-user routes the handler and the use     *)
(* case are invoked only after verify_token succeeded: a request with a    *)
(* missing, malformed, wrongly signed or expired token is answered 401,    *)
(* reaches neither and leaves the store unchanged; create-user and login   *)
(* are reached without a token.                                            *)
C26_ProtectedRoutes ==
    /\ last.op \in {"get_user", "update_user"} =>
          /\ BadToken =>
                /\ ~last.invoked
                /\ last.calls = <<>>
                /\ users = last.pre
                /\ last.response.status_code = 401
          /\ (last.invoked \/ last.calls # <<>> \/ users # last.pre) =>
                /\ CorrectlySigned(last.authorization)
                /\ ~ExpiryIs(last.authorization, "before", now)
    /\ last.op = "login" => (last.authorization = NoHeader /\ last.invoked)
    /\ (last.op = "create_user" /\ last.out.exc # "RequestValidationError") =>
          (last.authorization = NoHeader /\ last.invoked)

(* C26 witness: an update-user request with the token held, before its     *)
(* expiry, reached the use case, which changed the stored user.            *)
C26_Witness ==
    /\ last.op = "update_user"
    /\ held # NoneValue
    /\ last.authorization = held.token
    /\ last.invoked
    /\ last.calls # <<>>
    /\ users # last.pre

(* The tables that differ from us only in the stored passwords. *)
WithOtherPasswords(us) ==
    {{[r EXCEPT !.password = Bcrypt(p, 1)] : r \in us} :
        p \in {"password1", "password2", "password3"}}

(* The response to the request of the last step, had the table been us. *)
ResponseOver(us) ==
    {CASE last.op = "create_user" ->
            create_user(last.gw, us, nextId, now, s, last.arg, last.mock).response
       [] last.op = "get_user" ->
            get_user(last.gw, us, nextId, now, pyjwt, last.authorization,
                     last.arg, last.mock).response
       [] last.op = "update_user" ->
            update_user(last.gw, us, nextId, now, s, pyjwt, last.authorization,
                        last.arg, last.mock).response
       [] last.op = "login" ->
            login(last.gw, us, nextId, now, last.arg, last.mock).response :
        s \in Salts, pyjwt \in PyJWTVersions}

(* C30: no response of the create-user, get-user, update-user and login    *)
(* routes contains a password, plain or hashed: a user output carries      *)
(* exactly id, email, creation_date, profile_id and status_id, a login     *)
(* output a token with the claims sub and exp, an error its fixed text     *)
(* and the id or email looked up; and the response to a create-user,       *)
(* get-user or update-user request is the same over every table that       *)
(* differs only in the stored passwords.                                   *)
C30_NoPasswordInResponse ==
    (last.op \in HttpOps /\ last.gw # "MockAuthHandler") =>
        LET content == last.response.content
        IN /\ last.out.kind = "raise" =>
                /\ DOMAIN content \subseteq {"detail", "errors"}
                /\ DOMAIN content.detail = {"wording", "names"}
                /\ DOMAIN content.detail.names = {"user_id", "email"}
           /\ (last.out.kind = "return" /\ last.op = "login") =>
                /\ DOMAIN content.data = {"access_token", "token_type"}
                /\ DOMAIN content.data.access_token.payload = {"sub", "exp"}
           /\ (last.out.kind = "return" /\ last.op # "login") =>
                DOMAIN content.data =
                    {"id", "email", "creation_date", "profile_id", "status_id"}
           /\ last.op # "login" =>
                \A us \in WithOtherPasswords(last.pre) :
                    last.response \in ResponseOver(us)

(* C30 witness: a get-user request found a stored user, whose row holds a  *)
(* password hash, and was answered 200 with the user output.               *)
C30_Witness ==
    /\ last.op = "get_user"
    /\ last.gw = "UserDataGatewayImpl"
    /\ last.response.status_code = 200
    /\ \E r \in last.pre :
          /\ r.password.tag = "bcrypt"
          /\ last.response.content.data =
                UserOutput(r.id, r.email, r.creation_date, r.profile_id, r.status_id)

----------------------------------------------------------------------------
ReadOps == {"get_user", "get_user_by_id", "get_user_by_email", "authenticate_user"}

(* C29: the read operations get_user, get_user_by_id, get_user_by_email    *)
(* and authenticate_user leave the store as it was, whether they succeed   *)
(* or fail: the same users with the same fields, and the same next id.     *)
C29_ReadsLeaveStore ==
    [][last'.op \in ReadOps => (users' = users /\ nextId' = nextId)]_vars

(* C29 witness: a login on a table that holds users returned a token and  *)
(* the table is as it was.                                                 *)
C29_Witness ==
    /\ last.op = "authenticate_user"
    /\ last.out.kind = "return"
    /\ last.out.value # NoneValue
    /\ last.pre # {}
    /\ users = last.pre

----------------------------------------------------------------------------
(* authenticate_user(email, password) over the table us returns a token. *)
Authenticates(us, email, text) ==
    LET r == Auth_authenticate_user("Persistence", us, nextId, now,
                 User(NoneInt, email, Plain(text), now, NoneInt, NoneInt))
    IN r.out.kind = "return" /\ r.out.value # NoneValue

(* The step is a successful call of op through a gateway over the table. *)
Wrote(op) ==
    /\ last'.op = op
    /\ last'.gw \in {"Persistence", "UserDataGatewayImpl"}
    /\ last'.out.kind = "return"

----------------------------------------------------------------------------
(* Concurrent calls *)

(* The result of the call f run on its own over the table us. *)
Alone(f, us) ==
    {IF f.op = "create_user"
     THEN UC_create_user(f.gw, us, nextId, now, s, f.arg, Return(NoneValue)).out
     ELSE UC_update_user(f.gw, us, nextId, s, f.arg, Return(NoneValue)).out :
        s \in Salts}

(* C24: the use cases keep nothing between calls, so under every           *)
(* interleaving a call's result depends only on its own input and on the   *)
(* table contents it read, never on the input of another call in flight:   *)
(* a call that read one table at both its steps returns what it returns    *)
(* when run alone over that table, and two calls with the same input that  *)
(* read the same tables return the same.                                   *)
C24_NoCrossCallState ==
    \A c \in DOMAIN inflight :
        LET f == inflight[c]
        IN f.pc = "done" =>
              /\ f.read = f.wrote => f.out \in Alone(f, f.read)
              /\ \A d \in DOMAIN inflight :
                    LET g == inflight[d]
                    IN (/\ g.pc = "done"
                        /\ g.op = f.op /\ g.gw = f.gw /\ g.arg = f.arg
                        /\ g.read = f.read /\ g.wrote = f.wrote)
                       => g.out = f.out

(* C24 witness: caller 1's update returned and changed the table while     *)
(* caller 2's call, with another input, was in flight between its lookup   *)
(* of the table as it was and its write.                                   *)
C24_Witness ==
    /\ inflight # <<>>
    /\ inflight[1].pc = "done"
    /\ inflight[1].op = "update_user"
    /\ inflight[1].out.kind = "return"
    /\ inflight[1].wrote # users
    /\ inflight[2].pc = "looked"
    /\ inflight[2].read = inflight[1].wrote
    /\ inflight[2].arg # inflight[1].arg

(* C27: when two concurrent create_user calls carrying the same email have *)
(* both finished, at most one has succeeded, the other has failed with the *)
(* duplicate-user error, and exactly one stored user has that email.       *)
C27_OneOfTwoCreated ==
    (/\ inflight # <<>>
     /\ \A c \in DOMAIN inflight :
           /\ inflight[c].pc = "done"
           /\ inflight[c].op = "create_user"
     /\ inflight[1].gw = inflight[2].gw
     /\ inflight[1].arg.email = inflight[2].arg.email)
    => /\ Cardinality({c \in DOMAIN inflight : inflight[c].out.kind = "return"}) <= 1
       /\ \E c \in DOMAIN inflight : IsDuplicateError(inflight[c].out)
       /\ Cardinality({r \in users : r.email = inflight[1].arg.email}) = 1

====
